---------------------------- MODULE Spec2Model ----------------------------
(***************************************************************************)
(* A model of three pieces of the SOS kernel:                              *)
(*   - the ELF section header view (elf/section.rs): the type classifier   *)
(*     TypeRepr::as_type, the flag predicates of Header, the record        *)
(*     layout of Header and the Contents view;                             *)
(*   - the model-specific-register accessors (cpu/x86_64/msr.rs);          *)
(*   - the descriptor-table pointer DTable::get_ptr (cpu/x86_all/dtable.rs)*)
(*                                                                         *)
(* Machine words are wider than TLC's integers, so a word is a sequence    *)
(* of 16-bit limbs, least significant limb first: a u32 has two limbs, a   *)
(* u64 (and usize on the 64-bit target) has four.                          *)
(***************************************************************************)
EXTENDS Integers, Sequences, FiniteSets

VARIABLES
    msr,     \* the CPU's model-specific registers: MSR id -> u64
    halted,  \* TRUE once a panic! has unwound into the kernel's abort
    call     \* the operation that ran last: its name, arguments, result

vars == <<msr, halted, call>>

---------------------------------------------------------------------------
(* Bounds of the model.                                                    *)

\* Type codes 0 .. MaxSmallCode are enumerated one by one.
MaxSmallCode == 20
\* Section payloads of 0 .. MaxPayloadLen bytes.
MaxPayloadLen == 12
\* Descriptor tables of 0 .. MaxEntryCount entries (and a few large ones).
MaxEntryCount == 4

---------------------------------------------------------------------------
(* Words as limbs.                                                         *)

\* One limb holds 16 bits.
RECURSIVE Pow2(_)
Pow2(n) == IF n = 0 THEN 1 ELSE 2 * Pow2(n - 1)

Limb == Pow2(16)

\* A u32 from its high and low 16 bits, a u64 from its four 16-bit parts.
U32(hi, lo) == <<lo, hi>>
U64(l3, l2, l1, l0) == <<l0, l1, l2, l3>>

\* The u32 / u64 of a small natural number (below 2^31).
SmallU32(n) == <<n % Limb, n \div Limb>>

\* a <= b on words of equal length, most significant limb first.
RECURSIVE WordLeFrom(_, _, _)
WordLeFrom(a, b, i) ==
    IF i = 0 THEN TRUE
    ELSE IF a[i] # b[i] THEN a[i] < b[i]
    ELSE WordLeFrom(a, b, i - 1)

WordLe(a, b) == WordLeFrom(a, b, Len(a))

\* Bitwise and / or of two naturals below 2^16.
RECURSIVE BitAnd(_, _)
BitAnd(a, b) ==
    IF a = 0 \/ b = 0 THEN 0
    ELSE (a % 2) * (b % 2) + 2 * BitAnd(a \div 2, b \div 2)

RECURSIVE BitOr(_, _)
BitOr(a, b) ==
    IF a = 0 THEN b
    ELSE IF b = 0 THEN a
    ELSE (IF a % 2 = 1 \/ b % 2 = 1 THEN 1 ELSE 0)
         + 2 * BitOr(a \div 2, b \div 2)

\* a & b and a | b on words of equal length.
WordAnd(a, b) == [i \in 1..Len(a) |-> BitAnd(a[i], b[i])]
WordOr(a, b) == [i \in 1..Len(a) |-> BitOr(a[i], b[i])]

\* Bit i (0 = least significant) of a word.
Bit(w, i) == (w[(i \div 16) + 1] \div Pow2(i % 16)) % 2

---------------------------------------------------------------------------
(* elf/section.rs: the section type classifier.                            *)

SHT_LOOS   == U32(\H6000, \H0000)
SHT_HIOS   == U32(\H6FFF, \HFFFF)
SHT_LOPROC == U32(\H7000, \H0000)
SHT_HIPROC == U32(\H7FFF, \HFFFF)
SHT_LOUSER == U32(\H8000, \H0000)
SHT_HIUSER == U32(\HFFFF, \HFFFF)

\* The unit variants of enum Type, in declaration order.
TypeUnitVariants ==
    << "Null", "ProgramBits", "SymbolTable", "StringTable", "Rela",
       "HashTable", "Dynamic", "Notes", "NoBits", "Rel", "Shlib",
       "DynSymTable", "InitArray", "FiniArray", "PreInitArray",
       "Group", "SymbolTableShIndex" >>

\* The variants of enum Type that carry the raw code.
TypeRangeVariants == << "OSSpecific", "ProcessorSpecific", "User" >>

\* A value of enum Type: a unit variant carries the code 0 for uniformity.
Unit(tag) == [tag |-> tag, code |-> SmallU32(0)]
Range(tag, x) == [tag |-> tag, code |-> x]

\* The outcome of panic!(msg).
Panic(msg) == [tag |-> "panic", msg |-> msg]

\* x @ lo ... hi: an inclusive range pattern.
InRange(x, lo, hi) == WordLe(lo, x) /\ WordLe(x, hi)

\* as_type with the three array codes numbered 13, 14, 15 (contiguous with
\* 11 after one gap) instead of 14, 15, 16.
as_type_shifted(self) ==
    CASE self = SmallU32(0)  -> Unit("Null")
      [] self = SmallU32(1)  -> Unit("ProgramBits")
      [] self = SmallU32(2)  -> Unit("SymbolTable")
      [] self = SmallU32(3)  -> Unit("StringTable")
      [] self = SmallU32(4)  -> Unit("Rela")
      [] self = SmallU32(5)  -> Unit("HashTable")
      [] self = SmallU32(6)  -> Unit("Dynamic")
      [] self = SmallU32(7)  -> Unit("Notes")
      [] self = SmallU32(8)  -> Unit("NoBits")
      [] self = SmallU32(9)  -> Unit("Rel")
      [] self = SmallU32(10) -> Unit("Shlib")
      [] self = SmallU32(11) -> Unit("DynSymTable")
      [] self = SmallU32(13) -> Unit("InitArray")
      [] self = SmallU32(14) -> Unit("FiniArray")
      [] self = SmallU32(15) -> Unit("PreInitArray")
      [] InRange(self, SHT_LOOS, SHT_HIOS)     -> Range("OSSpecific", self)
      [] InRange(self, SHT_LOPROC, SHT_HIPROC) -> Range("ProcessorSpecific", self)
      [] InRange(self, SHT_LOUSER, SHT_HIUSER) -> Range("User", self)
      [] OTHER -> Panic("Invalid section type!")

\* as_type with exclusive range patterns (lo .. hi): the last code of each
\* range falls through.
as_type_exclusive(self) ==
    CASE self = SmallU32(0)  -> Unit("Null")
      [] self = SmallU32(1)  -> Unit("ProgramBits")
      [] self = SmallU32(2)  -> Unit("SymbolTable")
      [] self = SmallU32(3)  -> Unit("StringTable")
      [] self = SmallU32(4)  -> Unit("Rela")
      [] self = SmallU32(5)  -> Unit("HashTable")
      [] self = SmallU32(6)  -> Unit("Dynamic")
      [] self = SmallU32(7)  -> Unit("Notes")
      [] self = SmallU32(8)  -> Unit("NoBits")
      [] self = SmallU32(9)  -> Unit("Rel")
      [] self = SmallU32(10) -> Unit("Shlib")
      [] self = SmallU32(11) -> Unit("DynSymTable")
      [] self = SmallU32(14) -> Unit("InitArray")
      [] self = SmallU32(15) -> Unit("FiniArray")
      [] self = SmallU32(16) -> Unit("PreInitArray")
      [] InRange(self, SHT_LOOS, SHT_HIOS) /\ self # SHT_HIOS
            -> Range("OSSpecific", self)
      [] InRange(self, SHT_LOPROC, SHT_HIPROC) /\ self # SHT_HIPROC
            -> Range("ProcessorSpecific", self)
      [] InRange(self, SHT_LOUSER, SHT_HIUSER) /\ self # SHT_HIUSER
            -> Range("User", self)
      [] OTHER -> Panic("Invalid section type!")

\* as_type with the two declared but unmatched variants given their
\* conventional codes, 17 and 18.
as_type_with_group(self) ==
    CASE self = SmallU32(0)  -> Unit("Null")
      [] self = SmallU32(1)  -> Unit("ProgramBits")
      [] self = SmallU32(2)  -> Unit("SymbolTable")
      [] self = SmallU32(3)  -> Unit("StringTable")
      [] self = SmallU32(4)  -> Unit("Rela")
      [] self = SmallU32(5)  -> Unit("HashTable")
      [] self = SmallU32(6)  -> Unit("Dynamic")
      [] self = SmallU32(7)  -> Unit("Notes")
      [] self = SmallU32(8)  -> Unit("NoBits")
      [] self = SmallU32(9)  -> Unit("Rel")
      [] self = SmallU32(10) -> Unit("Shlib")
      [] self = SmallU32(11) -> Unit("DynSymTable")
      [] self = SmallU32(14) -> Unit("InitArray")
      [] self = SmallU32(15) -> Unit("FiniArray")
      [] self = SmallU32(16) -> Unit("PreInitArray")
      [] self = SmallU32(17) -> Unit("Group")
      [] self = SmallU32(18) -> Unit("SymbolTableShIndex")
      [] InRange(self, SHT_LOOS, SHT_HIOS)     -> Range("OSSpecific", self)
      [] InRange(self, SHT_LOPROC, SHT_HIPROC) -> Range("ProcessorSpecific", self)
      [] InRange(self, SHT_LOUSER, SHT_HIUSER) -> Range("User", self)
      [] OTHER -> Panic("Invalid section type!")

\* TypeRepr::as_type: the match on self.0, first arm that matches wins.
as_type(self) ==
    CASE self = SmallU32(0)  -> Unit("Null")
      [] self = SmallU32(1)  -> Unit("ProgramBits")
      [] self = SmallU32(2)  -> Unit("SymbolTable")
      [] self = SmallU32(3)  -> Unit("StringTable")
      [] self = SmallU32(4)  -> Unit("Rela")
      [] self = SmallU32(5)  -> Unit("HashTable")
      [] self = SmallU32(6)  -> Unit("Dynamic")
      [] self = SmallU32(7)  -> Unit("Notes")
      [] self = SmallU32(8)  -> Unit("NoBits")
      [] self = SmallU32(9)  -> Unit("Rel")
      [] self = SmallU32(10) -> Unit("Shlib")
      [] self = SmallU32(11) -> Unit("DynSymTable")
      [] self = SmallU32(14) -> Unit("InitArray")
      [] self = SmallU32(15) -> Unit("FiniArray")
      [] self = SmallU32(16) -> Unit("PreInitArray")
      [] InRange(self, SHT_LOOS, SHT_HIOS)     -> Range("OSSpecific", self)
      [] InRange(self, SHT_LOPROC, SHT_HIPROC) -> Range("ProcessorSpecific", self)
      [] InRange(self, SHT_LOUSER, SHT_HIUSER) -> Range("User", self)
      [] OTHER -> Panic("Invalid section type!")


---------------------------------------------------------------------------
(* elf/section.rs: the flag set and the predicates of Header.              *)

\* Flags is a usize: four limbs on the 64-bit target.
Flag(hi, lo) == U64(0, 0, hi, lo)

SHF_WRITE            == Flag(\H0000, \H0001)
SHF_ALLOC            == Flag(\H0000, \H0002)
SHF_EXECINSTR        == Flag(\H0000, \H0004)
SHF_MERGE            == Flag(\H0000, \H0010)
SHF_STRINGS          == Flag(\H0000, \H0020)
SHF_INFO_LINK        == Flag(\H0000, \H0040)
SHF_LINK_ORDER       == Flag(\H0000, \H0080)
SHF_OS_NONCONFORMING == Flag(\H0000, \H0100)
SHF_GROUP            == Flag(\H0000, \H0200)
SHF_TLS              == Flag(\H0000, \H0400)
SHF_COMPRESSED       == Flag(\H0000, \H0800)
SHF_MASKOS           == Flag(\H0FF0, \H0000)
SHF_MASKPROC         == Flag(\HF000, \H0000)

\* contains by equality instead of mask-and-compare.
contains_by_equality(self, other) == self = other

\* Flags::contains, as bitflags! generates it: (self & other) == other.
contains(self, other) == WordAnd(self, other) = other

is_writable(self)   == contains(self.flags, SHF_WRITE)
is_allocated(self)  == contains(self.flags, SHF_ALLOC)
is_executable(self) == contains(self.flags, SHF_EXECINSTR)
is_mergeable(self)  == contains(self.flags, SHF_MERGE)
\* is_uniform without the test of the strings bit.
is_uniform_merge_only(self) == contains(self.flags, SHF_MERGE)

is_uniform(self) ==
    contains(self.flags, SHF_MERGE) /\ ~contains(self.flags, SHF_STRINGS)

---------------------------------------------------------------------------
(* elf/section.rs: the layout of #[repr(C)] struct Header on the 64-bit    *)
(* target.  A field starts at the first multiple of its alignment at or    *)
(* after the end of the field before it; the record ends at the first      *)
(* multiple of the largest alignment at or after the end of the last field.*)

\* Size (= alignment) in bytes of u32, of usize and of memory::PAddr.
SizeU32   == 4
SizeUsize == 8
SizePAddr == 8

\* The fields of Header in declaration order, with their sizes.
HeaderFields ==
    << [name |-> "name_offset",   size |-> SizeU32],
       [name |-> "ty",            size |-> SizeU32],
       [name |-> "flags",         size |-> SizeUsize],
       [name |-> "address",       size |-> SizePAddr],
       [name |-> "offset",        size |-> SizePAddr],
       [name |-> "length",        size |-> SizePAddr],
       [name |-> "link",          size |-> SizeU32],
       [name |-> "info",          size |-> SizeU32],
       [name |-> "address_align", size |-> SizeU32],
       [name |-> "entry_length",  size |-> SizePAddr] >>

AlignUp(n, a) == ((n + a - 1) \div a) * a

\* The offset of field i of a repr(C) record.
RECURSIVE OffsetOf(_, _)
OffsetOf(fields, i) ==
    IF i = 1 THEN 0
    ELSE AlignUp(OffsetOf(fields, i - 1) + fields[i - 1].size, fields[i].size)

RECURSIVE MaxAlign(_, _)
MaxAlign(fields, i) ==
    IF i = 0 THEN 1
    ELSE LET m == MaxAlign(fields, i - 1)
         IN  IF fields[i].size > m THEN fields[i].size ELSE m

\* The layout of a repr(C) record: every field's offset, and its size_of.
ReprC(fields) ==
    LET n == Len(fields)
    IN  [offsets |-> [i \in 1..n |-> OffsetOf(fields, i)],
         size    |-> AlignUp(OffsetOf(fields, n) + fields[n].size,
                             MaxAlign(fields, n))]

---------------------------------------------------------------------------
(* elf/section.rs: the Contents view.  The source declares enum Contents   *)
(* only; the mapping from a classified type and a byte span to a variant   *)
(* is the one the design document describes.                               *)

\* The u32 stored little-endian in bytes i .. i+3 of a byte span.
U32At(bytes, i) ==
    U32(bytes[i + 3] * 256 + bytes[i + 2], bytes[i + 1] * 256 + bytes[i])

\* contents counting the flag word among the indices.
contents_flag_as_index(ty, bytes) ==
    IF ty.tag = "Null" THEN [tag |-> "Empty"]
    ELSE IF ty.tag = "Group" THEN
        IF Len(bytes) >= 4 /\ (Len(bytes) - 4) % 4 = 0
        THEN [tag      |-> "Group",
              flags    |-> U32At(bytes, 1),
              indicies |-> [k \in 1..(Len(bytes) \div 4) |->
                               U32At(bytes, 4 * k - 3)]]
        ELSE [tag |-> "error", msg |-> "malformed group payload"]
    ELSE [tag |-> "Undefined", bytes |-> bytes]

contents(ty, bytes) ==
    IF ty.tag = "Null" THEN [tag |-> "Empty"]
    ELSE IF ty.tag = "Group" THEN
        IF Len(bytes) >= 4 /\ (Len(bytes) - 4) % 4 = 0
        THEN [tag      |-> "Group",
              flags    |-> U32At(bytes, 1),
              indicies |-> [k \in 1..((Len(bytes) - 4) \div 4) |->
                               U32At(bytes, 4 * k + 1)]]
        ELSE [tag |-> "error", msg |-> "malformed group payload"]
    ELSE [tag |-> "Undefined", bytes |-> bytes]

---------------------------------------------------------------------------
(* cpu/x86_64/msr.rs: the model-specific registers.                        *)

IA32_EFER == U32(\HC000, \H0080)

\* On a u64: value as u32, value >> 32, value << 32; on a u32: x as u64.
AsU32(value) == SubSeq(value, 1, 2)
Shr32(value) == SubSeq(value, 3, 4) \o <<0, 0>>
Shl32(value) == <<0, 0>> \o SubSeq(value, 1, 2)
AsU64(x)     == x \o <<0, 0>>

\* The instructions: rdmsr loads EDX:EAX from the register ECX names,
\* wrmsr stores EDX:EAX to it.
rdmsr(regs, ecx) == [eax |-> AsU32(regs[ecx]), edx |-> AsU32(Shr32(regs[ecx]))]
wrmsr(regs, ecx, eax, edx) == [regs EXCEPT ![ecx] = eax \o edx]

\* write without the shift: EDX gets the low half too.
write_no_shift(regs, m, value) ==
    LET low  == AsU32(value)
        high == AsU32(value)
    IN  [regs |-> wrmsr(regs, m, low, high),
         io   |-> << [insn |-> "wrmsr", ecx |-> m, eax |-> low, edx |-> high] >>]

\* write(msr, value): the register file after the call, and the
\* instruction executed with its operands.
write(regs, m, value) ==
    LET low  == AsU32(value)
        high == AsU32(Shr32(value))
    IN  [regs |-> wrmsr(regs, m, low, high),
         io   |-> << [insn |-> "wrmsr", ecx |-> m, eax |-> low, edx |-> high] >>]

\* read(msr): the value returned, and the instruction executed.
read(regs, m) ==
    LET r    == rdmsr(regs, m)
        low  == r.eax
        high == r.edx
    IN  [ret |-> WordOr(Shl32(AsU64(high)), AsU64(low)),
         io  |-> << [insn |-> "rdmsr", ecx |-> m, eax |-> low, edx |-> high] >>]

\* 1 << 11
nxe_bit == U64(0, 0, 0, \H0800)

\* enable_nxe(): the register file after the call, and the instructions
\* executed in order.
enable_nxe(regs) ==
    LET r    == read(regs, IA32_EFER)
        efer == WordOr(r.ret, nxe_bit)
        w    == write(regs, IA32_EFER, efer)
    IN  [regs |-> w.regs, io |-> r.io \o w.io]

---------------------------------------------------------------------------
(* cpu/x86_all/dtable.rs: the descriptor-table pointer.                    *)

\* value as u16
AsU16(n) == n % Pow2(16)

\* DTable::get_ptr: self is a table with its entry size and entry count.
get_ptr(self) ==
    [limit |-> AsU16(self.entry_size * self.entry_count),
     base  |-> self.addr]

---------------------------------------------------------------------------
(* The inputs the operations are applied to.                               *)

\* Section type codes: the small codes one by one, and around every
\* boundary of the three reserved ranges.
HiLimbs == { \H0000, \H0001, \H5FFF, \H6000, \H6ABC, \H6FFF,
             \H7000, \H7FFF, \H8000, \HFFFF }
LoLimbs == { \H0000, \H0001, \HFFFF }
TypeCodes ==
    { SmallU32(n) : n \in 0..MaxSmallCode }
    \cup { U32(hi, lo) : hi \in HiLimbs, lo \in LoLimbs }

\* Flag words: every combination of the five bits the predicates read,
\* with no other bit, with MASKOS and MASKPROC, or with every other bit set.
ReadBits == { 1, 2, 4, 16, 32 }
RECURSIVE SumOf(_)
SumOf(S) == IF S = {} THEN 0
            ELSE LET x == CHOOSE y \in S : TRUE IN x + SumOf(S \ {x})
OtherBits == { U64(0, 0, 0, 0),
               U64(0, 0, \HFFF0, 0),
               U64(\HFFFF, \HFFFF, \HFFFF, \HFFC0) }
FlagWords ==
    { WordOr(U64(0, 0, 0, SumOf(S)), o) : S \in SUBSET ReadBits, o \in OtherBits }

\* Headers: only ty and flags are read by the operations modelled.
Headers == [ty : {SmallU32(1)}, flags : FlagWords]

\* Values of enum Type: every unit variant, and each range variant with
\* the first code of its range.
Types ==
    { Unit(TypeUnitVariants[i]) : i \in 1..Len(TypeUnitVariants) }
    \cup { Range("OSSpecific", SHT_LOOS), Range("ProcessorSpecific", SHT_LOPROC),
           Range("User", SHT_LOUSER) }

\* Byte spans: one of every length, byte i holding 16 * i + 1 (so that the
\* bytes of a span differ from each other).
Payloads == { [i \in 1..n |-> 16 * i + 1] : n \in 0..MaxPayloadLen }

\* Model-specific registers and the values written to them.
MsrIds == { IA32_EFER, U32(\HC000, \H0081) }
MsrValues == { U64(0, 0, 0, 0),
               U64(0, 0, 0, \H0D01),
               U64(\H8000, \H0001, \HFFFF, \HF7FF) }

\* Descriptor tables: the IDT (16-byte gates) and the GDT (8-byte
\* descriptors), with the entry counts their implementations may report.
EntryCounts == (0..MaxEntryCount) \cup { 256, 4095, 4096, 8191, 8192 }
DTables ==
    { [addr |-> "IDT", entry_size |-> 16, entry_count |-> n] : n \in EntryCounts }
    \cup { [addr |-> "GDT", entry_size |-> 8, entry_count |-> n] : n \in EntryCounts }

---------------------------------------------------------------------------
(* The state machine: the kernel calls one operation at a time.  A panic   *)
(* halts the kernel: nothing runs after it.                                *)

Init ==
    /\ msr \in [MsrIds -> MsrValues]
    /\ halted = FALSE
    /\ call = [op |-> "boot"]

\* TypeRepr::as_type on a raw type code.
AsType ==
    /\ ~halted
    /\ \E c \in TypeCodes :
          LET r == as_type(c)
          IN  /\ call' = [op |-> "as_type", arg |-> c, ret |-> r]
              /\ halted' = (r.tag = "panic")
    /\ UNCHANGED msr

IsWritable ==
    /\ ~halted
    /\ \E h \in Headers :
          call' = [op |-> "is_writable", arg |-> h, ret |-> is_writable(h)]
    /\ UNCHANGED <<msr, halted>>

IsAllocated ==
    /\ ~halted
    /\ \E h \in Headers :
          call' = [op |-> "is_allocated", arg |-> h, ret |-> is_allocated(h)]
    /\ UNCHANGED <<msr, halted>>

IsExecutable ==
    /\ ~halted
    /\ \E h \in Headers :
          call' = [op |-> "is_executable", arg |-> h, ret |-> is_executable(h)]
    /\ UNCHANGED <<msr, halted>>

IsMergeable ==
    /\ ~halted
    /\ \E h \in Headers :
          call' = [op |-> "is_mergeable", arg |-> h, ret |-> is_mergeable(h)]
    /\ UNCHANGED <<msr, halted>>

IsUniform ==
    /\ ~halted
    /\ \E h \in Headers :
          call' = [op |-> "is_uniform", arg |-> h, ret |-> is_uniform(h)]
    /\ UNCHANGED <<msr, halted>>

\* size_of::<Header>() and the offsets of its fields.
HeaderLayout ==
    /\ ~halted
    /\ call' = [op |-> "layout", arg |-> HeaderFields, ret |-> ReprC(HeaderFields)]
    /\ UNCHANGED <<msr, halted>>

\* The Contents view of a section of type ty with the byte span bytes.
GetContents ==
    /\ ~halted
    /\ \E ty \in Types, bytes \in Payloads :
          call' = [op |-> "contents", arg |-> [ty |-> ty, bytes |-> bytes],
                   ret |-> contents(ty, bytes)]
    /\ UNCHANGED <<msr, halted>>

Write ==
    /\ ~halted
    /\ \E m \in MsrIds, value \in MsrValues :
          LET w == write(msr, m, value)
          IN  /\ msr' = w.regs
              /\ call' = [op |-> "write", arg |-> [msr |-> m, value |-> value],
                          pre |-> msr, io |-> w.io]
    /\ UNCHANGED halted

Read ==
    /\ ~halted
    /\ \E m \in MsrIds :
          LET r == read(msr, m)
          IN  call' = [op |-> "read", arg |-> m, ret |-> r.ret,
                       pre |-> msr, io |-> r.io]
    /\ UNCHANGED <<msr, halted>>

EnableNxe ==
    /\ ~halted
    /\ LET e == enable_nxe(msr)
       IN  /\ msr' = e.regs
           /\ call' = [op |-> "enable_nxe", pre |-> msr, io |-> e.io]
    /\ UNCHANGED halted

GetPtr ==
    /\ ~halted
    /\ \E t \in DTables :
          call' = [op |-> "get_ptr", arg |-> t, ret |-> get_ptr(t)]
    /\ UNCHANGED <<msr, halted>>

Next ==
    \/ AsType
    \/ IsWritable
    \/ IsAllocated
    \/ IsExecutable
    \/ IsMergeable
    \/ IsUniform
    \/ HeaderLayout
    \/ GetContents
    \/ Write
    \/ Read
    \/ EnableNxe
    \/ GetPtr

Spec == Init /\ [][Next]_vars

---------------------------------------------------------------------------
(* The claims.                                                             *)

FixedCodes == << 0, 1, 2, 3, 4, 5, 6, 7, 8, 9, 10, 11, 14, 15, 16 >>
FixedNames ==
    << "Null", "ProgramBits", "SymbolTable", "StringTable", "Rela",
       "HashTable", "Dynamic", "Notes", "NoBits", "Rel", "Shlib",
       "DynSymTable", "InitArray", "FiniArray", "PreInitArray" >>

\* C1: classifying one of the codes 0..11, 14, 15, 16 returns exactly the
\* named variant of that code: never a range variant, never a failure.
C1_FixedCodesNamed ==
    call.op = "as_type" =>
        \A i \in 1..Len(FixedCodes) :
            call.arg = SmallU32(FixedCodes[i]) =>
                call.ret = [tag |-> FixedNames[i], code |-> <<0, 0>>]

\* C1 witness: code 16 has been classified as PreInitArray.
C1_Witness ==
    /\ call.op = "as_type"
    /\ call.arg = <<16, 0>>
    /\ call.ret.tag = "PreInitArray"

\* C2: a code in a reserved range is classified as the range variant of
\* that range carrying the code unchanged.  The range of a code is read off
\* its upper 16 bits: 0x6000..0x6fff, 0x7000..0x7fff, 0x8000..0xffff.
C2_RangesPreserveCode ==
    call.op = "as_type" =>
        LET hi == call.arg[2]
        IN  /\ hi \in 24576..28671 =>
                 call.ret = [tag |-> "OSSpecific", code |-> call.arg]
            /\ hi \in 28672..32767 =>
                 call.ret = [tag |-> "ProcessorSpecific", code |-> call.arg]
            /\ hi \in 32768..65535 =>
                 call.ret = [tag |-> "User", code |-> call.arg]

\* C2 witness: the last code of the OS range, 0x6fffffff, has been
\* classified as OSSpecific(0x6fffffff).
C2_Witness ==
    /\ call.op = "as_type"
    /\ call.arg = <<65535, 28671>>
    /\ call.ret.tag = "OSSpecific"
    /\ call.ret.code = <<65535, 28671>>

\* The codes no arm of the classifier names: 12, 13 and 0x11..0x5fffffff.
Unassigned(c) ==
    \/ c = <<12, 0>>
    \/ c = <<13, 0>>
    \/ (c[2] = 0 /\ c[1] >= 17)
    \/ c[2] \in 1..24575

\* C3: classifying an unassigned code returns an explicit error result to
\* the caller, which can continue: no default type, no abort.
C3_UnrecognizedIsErrorResult ==
    (call.op = "as_type" /\ Unassigned(call.arg)) =>
        /\ call.ret.tag = "error"
        /\ ~halted

\* C4: each of is_writable, is_allocated, is_executable, is_mergeable is
\* true iff its own bit (0, 1, 2, 4) of the flags word is set, whatever the
\* other bits are.
C4_PredicateReadsOwnBit ==
    /\ call.op = "is_writable"   => (call.ret <=> Bit(call.arg.flags, 0) = 1)
    /\ call.op = "is_allocated"  => (call.ret <=> Bit(call.arg.flags, 1) = 1)
    /\ call.op = "is_executable" => (call.ret <=> Bit(call.arg.flags, 2) = 1)
    /\ call.op = "is_mergeable"  => (call.ret <=> Bit(call.arg.flags, 4) = 1)

\* C4 witness: is_executable has answered true on the flags 0x6 with every
\* MASKOS and MASKPROC bit set as well.
C4_Witness ==
    /\ call.op = "is_executable"
    /\ call.arg.flags = <<6, 65520, 0, 0>>
    /\ call.ret = TRUE

\* C5: is_uniform is true iff bit 0x10 is set and bit 0x20 is clear; so it
\* is true on 0x10, false on 0x30 and on 0x0, and implies is_mergeable.
C5_UniformIffMergeNotStrings ==
    call.op = "is_uniform" =>
        /\ call.ret <=> (Bit(call.arg.flags, 4) = 1 /\ Bit(call.arg.flags, 5) = 0)
        /\ call.arg.flags = <<16, 0, 0, 0>> => call.ret
        /\ call.arg.flags = <<48, 0, 0, 0>> => ~call.ret
        /\ call.arg.flags = <<0, 0, 0, 0>> => ~call.ret
        /\ call.ret => is_mergeable(call.arg)

\* C5 witness: is_uniform has answered false on the flags 0x30.
C5_Witness ==
    /\ call.op = "is_uniform"
    /\ call.arg.flags = <<48, 0, 0, 0>>
    /\ call.ret = FALSE

\* Byte i of a span is 16 * i + 1 in every span of Payloads; index k of a
\* group payload occupies bytes 4k+1 .. 4k+4, least significant first.
IndexAt(bytes, k) ==
    << bytes[4 * k + 1] + 256 * bytes[4 * k + 2],
       bytes[4 * k + 3] + 256 * bytes[4 * k + 4] >>

\* C6: the Contents view is decided by the type: Null gives Empty; Group
\* with a payload of 4 + 4n bytes gives Group with exactly the n indices
\* after the flag word, in order; Group with any other length fails with
\* "malformed group payload"; every other type gives Undefined with the
\* raw byte span.
C6_ContentsByType ==
    call.op = "contents" =>
        LET ty    == call.arg.ty
            bytes == call.arg.bytes
            len   == Len(bytes)
        IN  /\ ty.tag = "Null" => call.ret.tag = "Empty"
            /\ (ty.tag = "Group" /\ \E n \in 0..len : len = 4 + 4 * n) =>
                  /\ call.ret.tag = "Group"
                  /\ \A n \in 0..len : len = 4 + 4 * n =>
                        /\ Len(call.ret.indicies) = n
                        /\ \A k \in 1..n :
                              call.ret.indicies[k] = IndexAt(bytes, k)
            /\ (ty.tag = "Group" /\ ~\E n \in 0..len : len = 4 + 4 * n) =>
                  /\ call.ret.tag = "error"
                  /\ call.ret.msg = "malformed group payload"
            /\ ty.tag \notin {"Null", "Group"} =>
                  /\ call.ret.tag = "Undefined"
                  /\ call.ret.bytes = bytes

\* C6 witness: a group payload of 12 bytes has given a Group of 2 indices.
C6_Witness ==
    /\ call.op = "contents"
    /\ call.arg.ty.tag = "Group"
    /\ Len(call.arg.bytes) = 12
    /\ call.ret.tag = "Group"
    /\ Len(call.ret.indicies) = 2

RECURSIVE SumSizes(_, _)
SumSizes(fields, i) ==
    IF i = 0 THEN 0 ELSE fields[i].size + SumSizes(fields, i - 1)

\* C7: the section header record has no padding: every field begins where
\* the field before it ends, and the record size is the sum of the sizes.
C7_NoPadding ==
    call.op = "layout" =>
        /\ \A i \in 2..Len(call.arg) :
              call.ret.offsets[i] = call.ret.offsets[i - 1] + call.arg[i - 1].size
        /\ call.ret.size = SumSizes(call.arg, Len(call.arg))

\* C8: classification never returns Group or SymbolTableShIndex: a result
\* is one of the fifteen named variants or one of the three range variants.
C8_GroupNeverClassified ==
    call.op = "as_type" =>
        /\ call.ret.tag \notin {"Group", "SymbolTableShIndex"}
        /\ call.ret.tag # "panic" =>
              call.ret.tag \in { FixedNames[i] : i \in 1..Len(FixedNames) }
                               \cup {"OSSpecific", "ProcessorSpecific", "User"}

\* C8 witness: the conventional group code 17 has been classified, and
\* not as Group.
C8_Witness ==
    /\ call.op = "as_type"
    /\ call.arg = <<17, 0>>
    /\ call.ret.tag # "Group"

\* C9: enable_nxe reads IA32_EFER, then writes IA32_EFER with the value
\* read with bit 11 set: afterwards bit 11 is set and the other 63 bits are
\* as before, no other register has changed, and a second call changes
\* nothing.
C9_EnableNxeSetsOnlyBit11 ==
    call.op = "enable_nxe" =>
        /\ Len(call.io) = 2
        /\ call.io[1].insn = "rdmsr" /\ call.io[1].ecx = <<128, 49152>>
        /\ call.io[2].insn = "wrmsr" /\ call.io[2].ecx = <<128, 49152>>
        /\ call.io[1].eax \o call.io[1].edx = call.pre[<<128, 49152>>]
        /\ \A i \in 0..63 :
              /\ Bit(call.io[2].eax \o call.io[2].edx, i) =
                    IF i = 11 THEN 1 ELSE Bit(call.io[1].eax \o call.io[1].edx, i)
              /\ Bit(msr[<<128, 49152>>], i) =
                    IF i = 11 THEN 1 ELSE Bit(call.pre[<<128, 49152>>], i)
        /\ \A m \in DOMAIN msr : m # <<128, 49152>> => msr[m] = call.pre[m]
        /\ enable_nxe(msr).regs = msr

\* C9 witness: enable_nxe has run on an EFER with bits set in both halves
\* and bit 11 clear.
C9_Witness ==
    /\ call.op = "enable_nxe"
    /\ call.pre[<<128, 49152>>] = <<63487, 65535, 1, 32768>>
    /\ Bit(msr[<<128, 49152>>], 11) = 1

\* C10: get_ptr returns the table as base and its length in bytes,
\* size_of::<Entry>() * entry_count(), as limit, without wrapping.
C10_LimitIsByteLength ==
    call.op = "get_ptr" =>
        /\ call.ret.base = call.arg.addr
        /\ call.ret.limit = call.arg.entry_size * call.arg.entry_count

===========================================================================
